---- MODULE Spec2Model ----
(***************************************************************************)
(* Model of the hybrid cache of chromey:                                   *)
(*   - rewrite_base_tag          (src/src/cache.rs)                        *)
(*   - the remote dump worker    (src/src/cache/dump_remote.rs)            *)
(* Two specifications share the module: SpecRewrite drives the base-tag    *)
(* rewriter over every bounded document, Spec / FairSpec drive the worker, *)
(* its channel and its callers.                                            *)
(***************************************************************************)
EXTENDS Integers, Sequences, FiniteSets, TLC

\* ------------------------------------------------------------------------
\* Bounds
\* ------------------------------------------------------------------------
\* longest document, in tokens
MaxDoc == 4
\* number of DumpJobs the callers create
MaxJobs == 3
\* how late a tick is told apart (ms)
MaxLate == 1
\* longest uri and auth string, in characters
MaxStr == 2
\* longest freshness lifetime of a policy (ms)
MaxFresh == 2
\* longest response body pushed to the remote server, in bytes
MaxBody == 3
\* longest list of payloads the remote server answers with
MaxPayloads == 3
\* largest number of valid pairs in a header set
MaxHeaders == 1003
\* largest number of malformed pairs in a header set
MaxBad == 2

\* ------------------------------------------------------------------------
\* State
\* ------------------------------------------------------------------------
VARIABLES
    \* ---- rewrite_base_tag ----
    r_pc,               \* position in rewrite_base_tag
    base_url,           \* the base_url argument (Option<&str>)
    utf8_ok,            \* whether the html bytes are valid UTF-8
    html,               \* the html argument, as the tokens taken from the stream so far
    base_tag_inserted,  \* OnceLock of line 81 (TRUE = set)
    already_present,    \* OnceLock of line 82 (TRUE = set)
    stack,              \* open elements carrying an end-tag handler
    buffer,             \* the output sink of the rewriter
    wrote_error,        \* the wrote_error flag
    fed_after_present,  \* history: a chunk was written with already_present set
    result,             \* the returned String
    \* ---- callers of dump_remote.rs ----
    pc,                 \* position of each caller
    call,               \* the call each caller is in: operation, job, arguments
    ret,                \* what the last finished call of each caller returned
    tx,                 \* the channel of the Sender each caller holds
    next_id,            \* history: the number the next accepted job gets
    \* ---- REMOTE_DUMP_TX (OnceCell) ----
    REMOTE_DUMP_TX,     \* 0 = not set, else the channel of the stored Sender
    once_sem,           \* the cell's semaphore: "free", "held", "closed"
    channels,           \* number of channels created
    spawned,            \* number of worker tasks spawned
    cfg,                \* what the worker task captured: capacity, tick_ms, timeout_ms
    \* ---- the mpsc channel ----
    queue,              \* buffered jobs
    permits,            \* free slots
    waiters,            \* callers suspended in send, oldest first
    \* ---- the worker task ----
    w_pc,               \* "none", "recv", "tick", "push"
    w_job,              \* the job of the current iteration
    inflight,           \* the inflight set
    tick_due,           \* ms until the interval's deadline (negative: missed)
    push_elapsed,       \* ms since tokio::time::timeout was started
    since_start,        \* history: ms since the last push started, up to tick_ms
    last_gap,           \* history: since_start when the last push started
    \* ---- CACACHE_MANAGER, the local store ----
    store,              \* cache key -> entry (body, policy) or NoEntry
    \* ---- get_cached_url ----
    g_pc,               \* "idle", "lookup"
    g_key,              \* the key looked up
    g_elapsed,          \* ms since tokio::time::timeout was started
    g_outcome,          \* history: how the last call's lookup ended
    g_result,           \* what the last call returned
    \* ---- create_cache_key_raw ----
    k_pc,               \* "args", "done"
    k_args,             \* two argument triples (uri, override_method, auth)
    k_keys,             \* the two keys returned
    \* ---- dump_to_remote_cache / get_cache_site ----
    dumped,             \* history: the (cache_key, body) pairs pushed
    remote,             \* the payloads the remote server answers a pull with
    s_pc,               \* "idle", "seeding", "done"
    payloads,           \* the parsed Vec<HybridCachePayload>
    s_i,                \* entries of payloads the loop is done with
    s_log,              \* history: per entry, "put" or the failure warned about
    \* ---- put_hybrid_cache / seed_payload_into_local_cache: the policy ----
    p_args,             \* url, method, status, request and response headers
    p_put,              \* the pair put_hybrid_cache gave CachePolicy::new
    p_seed,             \* the pair seed_payload_into_local_cache gave it
    \* ---- convert_headers ----
    h_pc,               \* "loop", "done"
    h_input,            \* the header set: numbers of valid and malformed pairs
    h_left,             \* pairs the iterator has not yielded yet
    h_index,            \* index of the next pair yielded
    h_map,              \* number of pairs in header_map
    \* ---- the website key: dump_to_remote_cache vs. get_cache_site ----
    site,               \* the URL of a pushed response, the target_url pulled, auth
    website_key,        \* payload.website_key of the push
    site_key            \* the key in the path of the pull's GET

rvars == <<r_pc, base_url, utf8_ok, html, base_tag_inserted, already_present,
           stack, buffer, wrote_error, fed_after_present, result>>

cvars == <<pc, call, ret, tx, next_id>>
ovars == <<REMOTE_DUMP_TX, once_sem, channels, spawned, cfg>>
qvars == <<queue, permits, waiters>>
wvars == <<w_pc, w_job, inflight, tick_due, push_elapsed, since_start, last_gap>>

mvars == <<store>>
gvars == <<g_pc, g_key, g_elapsed, g_outcome, g_result>>
kvars == <<k_pc, k_args, k_keys>>
svars == <<dumped, remote, s_pc, payloads, s_i, s_log>>
pvars == <<p_args, p_put, p_seed>>
hvars == <<h_pc, h_input, h_left, h_index, h_map>>
tvars == <<site, website_key, site_key>>
\* the state outside rewrite_base_tag and dump_remote.rs
xvars == <<mvars, gvars, kvars, svars, pvars, hvars, tvars>>

vars == <<rvars, cvars, ovars, qvars, wvars, xvars>>

\* ------------------------------------------------------------------------
\* rewrite_base_tag: tokens
\* ------------------------------------------------------------------------
NoUrl == "None"
BaseUrls == {NoUrl, "https://example.com/"}

OpenHtml == <<"open", "html">>
CloseHtml == <<"close", "html">>
OpenHead == <<"open", "head">>
CloseHead == <<"close", "head">>
\* <base href="https://x/">
BaseAbs == <<"base", "abs">>
\* <base href="/rel">
BaseRel == <<"base", "rel">>
\* <base>
BaseNoHref == <<"base", "nohref">>
Text == <<"text", "x">>

DocTokens == {OpenHtml, CloseHtml, OpenHead, CloseHead, BaseAbs, BaseRel, BaseNoHref, Text}

\* numbers of tokens a chunk of STREAMING_CHUNK_SIZE bytes can hold
ChunkLens == {1, 2}
\* the chunks html.chunks(STREAMING_CHUNK_SIZE) can yield
Chunks == UNION {[1..n -> DocTokens] : n \in ChunkLens}

\* base_url.unwrap_or_default()
UnwrapOrDefault(b) == IF b = NoUrl THEN "" ELSE b

\* format!(r#"<base href="{}">"#, ...)
InsBase(b) == <<"<base href=>", UnwrapOrDefault(b)>>
\* format!(r#"<head><base href="{}"></head>"#, ...)
InsHeadBlock(b) == <<"<head><base href=></head>", UnwrapOrDefault(b)>>

IsInsert(tok) == tok[1] \in {"<base href=>", "<head><base href=></head>"}

\* ------------------------------------------------------------------------
\* rewrite_base_tag: the three element handlers, on the rewriter state
\*   rs = [inserted, present, stack, out]
\* ------------------------------------------------------------------------
\* attr.starts_with("http://") || attr.starts_with("https://")
ValidHttp(href) == href = "abs"

\* element!("base", ...)
OnBase(rs, tok) ==
    IF ~rs.inserted
    THEN IF tok[2] # "nohref"
         THEN IF ValidHttp(tok[2])
              THEN [rs EXCEPT !.inserted = TRUE, !.present = TRUE,
                              !.out = Append(@, tok)]
              ELSE rs   \* el.remove()
         ELSE rs        \* el.remove()
    ELSE [rs EXCEPT !.out = Append(@, tok)]

\* OnceLock::clone: a new cell holding a copy of the value
OnceLockClone(cell) == cell

\* element!("head", ...) and element!("html", ...): the element is opened and
\* its end-tag handler is pushed with a clone of base_tag_inserted
OnOpen(rs, tok) ==
    [rs EXCEPT !.stack = Append(@, [tag |-> tok[2],
                                    cell |-> OnceLockClone(rs.inserted)]),
               !.out = Append(@, tok)]

\* what the end-tag handler of a head element puts before the end tag
HeadEndContent(b) == InsBase(b)
\* (mutant) the html handler inserts the bare base tag of the head handler
HtmlEndContentBare(b) == InsBase(b)
\* what the end-tag handler of an html element puts before the end tag
HtmlEndContent(b) == InsHeadBlock(b)

\* the end-tag handler (lines 122-128 and 143-149): the test reads the
\* handler's own cell
EndTagHandlerInserts(cell) == ~cell

\* index of the innermost open element named tag, 0 if none
Innermost(stk, tag) ==
    LET idx == {i \in 1..Len(stk) : stk[i].tag = tag}
    IN IF idx = {} THEN 0 ELSE CHOOSE i \in idx : \A j \in idx : j <= i

\* an end tag: the handler of the element it closes runs, elements left open
\* inside it are dropped with their handlers
OnClose(rs, tok, b) ==
    LET i == Innermost(rs.stack, tok[2])
    IN IF i = 0
       THEN [rs EXCEPT !.out = Append(@, tok)]
       ELSE LET ins == IF tok[2] = "head" THEN HeadEndContent(b) ELSE HtmlEndContent(b)
            IN [rs EXCEPT
                 !.stack = SubSeq(@, 1, i - 1),
                 !.out = IF EndTagHandlerInserts(rs.stack[i].cell)
                         THEN @ \o <<ins, tok>>
                         ELSE Append(@, tok)]

HandleToken(rs, tok, b) ==
    CASE tok[1] = "base" -> OnBase(rs, tok)
      [] tok[1] = "open" -> OnOpen(rs, tok)
      [] tok[1] = "close" -> OnClose(rs, tok, b)
      [] OTHER -> [rs EXCEPT !.out = Append(@, tok)]

\* rewriter.write(chunk): every token of the chunk goes through the handlers
RECURSIVE RewriterWrite(_, _, _)
RewriterWrite(rs, chunk, b) ==
    IF chunk = <<>> THEN rs
    ELSE RewriterWrite(HandleToken(rs, Head(chunk), b), Tail(chunk), b)

\* std::str::from_utf8(&html).unwrap_or_default().into()
FromUtf8OrDefault(bytes, ok) ==
    IF ok THEN [text |-> bytes, exact |-> TRUE] ELSE [text |-> <<>>, exact |-> FALSE]

\* auto_encoder::auto_encode_bytes(&buffer): markup survives, text outside
\* UTF-8 is decoded with the detected charset
AutoEncodeBytes(bytes, ok) == [text |-> bytes, exact |-> ok]

NoResult == [text |-> <<>>, exact |-> FALSE]

\* ------------------------------------------------------------------------
\* dump_remote.rs: configuration
\* ------------------------------------------------------------------------
Procs == {"p1", "p2"}
Keys == {"a", "b"}

\* default_queue_cap(), default_qps(), default_timeout_ms() with the three
\* HYBRID_CACHE_REMOTE_* variables set
DefaultArgs == [queue_cap |-> 2, qps |-> 500, timeout_ms |-> 2]
\* arguments callers pass to init_remote_dump_worker
InitArgs == {[queue_cap |-> 0, qps |-> 5000, timeout_ms |-> 1]}

Max(a, b) == IF a >= b THEN a ELSE b
Min(a, b) == IF a <= b THEN a ELSE b

\* line 29: queue_cap.max(1)
ChannelCap(queue_cap) == Max(queue_cap, 1)
\* lines 32-33: (1000u64 / qps.max(1) as u64).max(1)
TickMs(qps) == Max(1000 \div Max(qps, 1), 1)

NoCfg == [cap |-> 0, tick_ms |-> 0, timeout_ms |-> 0]
NoJob == [id |-> 0, key |-> "none", racing |-> FALSE]
NoCall == [op |-> "", job |-> NoJob, args |-> DefaultArgs]

\* ------------------------------------------------------------------------
\* dump_remote.rs: REMOTE_DUMP_TX.get_or_init
\* ------------------------------------------------------------------------
\* OnceCell::initialized()
Initialized == REMOTE_DUMP_TX # 0

\* (mutant) initialization without the cell's semaphore
CanInitAlways == TRUE
\* OnceCell::get_or_init: the caller that gets the semaphore's one permit runs
\* the initializer
CanInit == once_sem = "free"

\* a call of init_remote_dump_worker, init_default_cache_worker, enqueue or
\* enqueue_best_effort starts: lines 69-71, 77-78, 85-86, 144
Call(p, op, jb, args) ==
    /\ pc[p] = "idle"
    /\ call' = [call EXCEPT ![p] = [op |-> op, job |-> jb, args |-> args]]
    /\ ret' = [ret EXCEPT ![p] = "none"]
    /\ IF Initialized
       THEN /\ pc' = [pc EXCEPT ![p] = "have_tx"]
            /\ tx' = [tx EXCEPT ![p] = REMOTE_DUMP_TX]
            /\ UNCHANGED once_sem
       ELSE IF CanInit
       THEN /\ pc' = [pc EXCEPT ![p] = "init_inner"]
            /\ once_sem' = "held"
            /\ UNCHANGED tx
       ELSE /\ pc' = [pc EXCEPT ![p] = "once_wait"]
            /\ UNCHANGED <<tx, once_sem>>
    /\ UNCHANGED <<next_id, REMOTE_DUMP_TX, channels, spawned, cfg, qvars, wvars,
                   rvars, xvars>>

CallInit(p) ==
    \E a \in InitArgs : Call(p, "init_remote_dump_worker", NoJob, a)

CallInitDefault(p) ==
    Call(p, "init_default_cache_worker", NoJob, DefaultArgs)

NewJob(k) == [id |-> 0, key |-> k, racing |-> FALSE]

\* the jobs the callers hold and those accepted stay within MaxJobs
MayCreateJob ==
    next_id + Cardinality({q \in Procs : call[q].job # NoJob}) <= MaxJobs

CallEnqueue(p) ==
    /\ MayCreateJob
    /\ \E k \in Keys : Call(p, "enqueue", NewJob(k), DefaultArgs)

CallEnqueueBestEffort(p) ==
    /\ MayCreateJob
    /\ \E k \in Keys : Call(p, "enqueue_best_effort", NewJob(k), DefaultArgs)

\* init_inner, lines 28-61: the channel is created, the worker task is spawned
\* with its interval (first tick due at once) and an empty inflight set, and
\* get_or_init stores the Sender
InitInner(p) ==
    /\ pc[p] = "init_inner"
    /\ channels' = channels + 1
    /\ spawned' = spawned + 1
    /\ cfg' = [cap |-> ChannelCap(call[p].args.queue_cap),
               tick_ms |-> TickMs(call[p].args.qps),
               timeout_ms |-> call[p].args.timeout_ms]
    /\ queue' = <<>>
    /\ permits' = ChannelCap(call[p].args.queue_cap)
    /\ waiters' = <<>>
    /\ w_pc' = "recv"
    /\ w_job' = NoJob
    /\ inflight' = {}
    /\ tick_due' = 0
    /\ push_elapsed' = 0
    /\ since_start' = TickMs(call[p].args.qps)
    /\ last_gap' = TickMs(call[p].args.qps)
    /\ REMOTE_DUMP_TX' = channels + 1
    /\ once_sem' = "closed"
    /\ tx' = [tx EXCEPT ![p] = channels + 1]
    /\ pc' = [pc EXCEPT ![p] = "have_tx"]
    /\ UNCHANGED <<call, ret, next_id, rvars, xvars>>

\* get_or_init of a caller that found the semaphore taken: it goes on once
\* the value is set
OnceWake(p) ==
    /\ pc[p] = "once_wait"
    /\ Initialized
    /\ tx' = [tx EXCEPT ![p] = REMOTE_DUMP_TX]
    /\ pc' = [pc EXCEPT ![p] = "have_tx"]
    /\ UNCHANGED <<call, ret, next_id, ovars, qvars, wvars, rvars, xvars>>

\* the call of p is over: its arguments and its Sender are dropped
Return(p) ==
    /\ pc' = [pc EXCEPT ![p] = "idle"]
    /\ call' = [call EXCEPT ![p] = NoCall]
    /\ tx' = [tx EXCEPT ![p] = 0]

\* lines 72-73 and 144: the init calls return (a clone of) the Sender
InitReturn(p) ==
    /\ pc[p] = "have_tx"
    /\ call[p].op \in {"init_remote_dump_worker", "init_default_cache_worker"}
    /\ ret' = [ret EXCEPT ![p] = "tx"]
    /\ Return(p)
    /\ UNCHANGED <<next_id, ovars, qvars, wvars, rvars, xvars>>

\* ------------------------------------------------------------------------
\* dump_remote.rs: the channel
\* ------------------------------------------------------------------------
\* jobs accepted whose push has not completed: buffered, or held by the worker
PendingKeys ==
    {queue[i].key : i \in 1..Len(queue)}
        \cup (IF w_pc \in {"tick", "push"} THEN {w_job.key} ELSE {})

\* the job as it enters the buffer, with its history: id numbers the accepted
\* jobs in order, racing tells that an earlier job of the same cache key is
\* accepted and its push has not completed
Accepted(jb) == [jb EXCEPT !.id = next_id, !.racing = jb.key \in PendingKeys]

\* (mutant) enqueue_best_effort sends with tx.send(job).await
EnqueueBestEffortSend(p) ==
    /\ pc[p] = "have_tx"
    /\ call[p].op = "enqueue_best_effort"
    /\ IF permits > 0
       THEN /\ permits' = permits - 1
            /\ queue' = Append(queue, Accepted(call[p].job))
            /\ next_id' = next_id + 1
            /\ ret' = [ret EXCEPT ![p] = "true"]
            /\ Return(p)
            /\ UNCHANGED waiters
       ELSE /\ waiters' = Append(waiters, p)
            /\ pc' = [pc EXCEPT ![p] = "send_wait"]
            /\ UNCHANGED <<queue, permits, ret, call, tx, next_id>>
    /\ UNCHANGED <<ovars, wvars, rvars, xvars>>

\* line 80: tx.try_send(job).is_ok()
EnqueueBestEffort(p) ==
    /\ pc[p] = "have_tx"
    /\ call[p].op = "enqueue_best_effort"
    /\ IF permits > 0
       THEN /\ permits' = permits - 1
            /\ queue' = Append(queue, Accepted(call[p].job))
            /\ next_id' = next_id + 1
            /\ ret' = [ret EXCEPT ![p] = "true"]
       ELSE /\ ret' = [ret EXCEPT ![p] = "false"]
            /\ UNCHANGED <<queue, permits, next_id>>
    /\ Return(p)
    /\ UNCHANGED <<waiters, ovars, wvars, rvars, xvars>>

\* (mutant) enqueue gives up on a full queue
EnqueueDropOnFull(p) ==
    /\ pc[p] = "have_tx"
    /\ call[p].op = "enqueue"
    /\ IF permits > 0
       THEN /\ permits' = permits - 1
            /\ queue' = Append(queue, Accepted(call[p].job))
            /\ next_id' = next_id + 1
       ELSE UNCHANGED <<queue, permits, next_id>>
    /\ ret' = [ret EXCEPT ![p] = "Ok"]
    /\ Return(p)
    /\ UNCHANGED <<waiters, ovars, wvars, rvars, xvars>>

\* line 88: tx.send(job).await, first poll: a free slot is taken and the job
\* is buffered, or the caller is suspended behind the earlier ones
Enqueue(p) ==
    /\ pc[p] = "have_tx"
    /\ call[p].op = "enqueue"
    /\ IF permits > 0
       THEN /\ permits' = permits - 1
            /\ queue' = Append(queue, Accepted(call[p].job))
            /\ next_id' = next_id + 1
            /\ ret' = [ret EXCEPT ![p] = "Ok"]
            /\ Return(p)
            /\ UNCHANGED waiters
       ELSE /\ waiters' = Append(waiters, p)
            /\ pc' = [pc EXCEPT ![p] = "send_wait"]
            /\ UNCHANGED <<queue, permits, ret, call, tx, next_id>>
    /\ UNCHANGED <<ovars, wvars, rvars, xvars>>

\* line 88: tx.send(job).await of a caller that was handed a slot
EnqueueResume(p) ==
    /\ pc[p] = "send_ready"
    /\ queue' = Append(queue, Accepted(call[p].job))
    /\ next_id' = next_id + 1
    /\ ret' = [ret EXCEPT ![p] = "Ok"]
    /\ Return(p)
    /\ UNCHANGED <<permits, waiters, ovars, wvars, rvars, xvars>>

\* (mutant) try_enqueue gets its Sender from init_remote_dump_worker
TryEnqueueAutoInit(p) == CallEnqueueBestEffort(p)

\* lines 114-119: REMOTE_DUMP_TX.get().and_then(|tx| tx.try_send(job).ok())
\* .is_some(), a function that is not async: one step from call to return
TryEnqueue(p) ==
    /\ pc[p] = "idle"
    /\ MayCreateJob
    /\ \E k \in Keys :
         IF Initialized /\ permits > 0
         THEN /\ permits' = permits - 1
              /\ queue' = Append(queue, Accepted(NewJob(k)))
              /\ next_id' = next_id + 1
              /\ ret' = [ret EXCEPT ![p] = "try_true"]
         ELSE /\ ret' = [ret EXCEPT ![p] = "try_false"]
              /\ UNCHANGED <<queue, permits, next_id>>
    /\ UNCHANGED <<pc, call, tx, waiters, ovars, wvars, rvars, xvars>>

\* ------------------------------------------------------------------------
\* dump_remote.rs: the worker task, lines 31-58
\* ------------------------------------------------------------------------
\* (mutant) MissedTickBehavior::Burst: the next deadline is the missed one
\* plus the period
NextTimeoutBurst(due, period) == due + period
\* line 35, MissedTickBehavior::Delay: after a missed tick the next deadline
\* is now + period; after a tick on time it is the deadline + period
NextTimeout(due, period) == IF due < 0 THEN period ELSE due + period

\* line 40: inflight.insert(key) is false for a key already in the set
AlreadyInflight(s, key) == key \in s

\* (mutant) rx.recv() yields the newest job of the queue
WorkerRecvNewest ==
    /\ w_pc = "recv"
    /\ queue # <<>>
    /\ queue' = SubSeq(queue, 1, Len(queue) - 1)
    /\ IF waiters # <<>>
       THEN /\ waiters' = Tail(waiters)
            /\ pc' = [pc EXCEPT ![Head(waiters)] = "send_ready"]
            /\ UNCHANGED permits
       ELSE /\ permits' = permits + 1
            /\ UNCHANGED <<waiters, pc>>
    /\ w_job' = queue[Len(queue)]
    /\ IF AlreadyInflight(inflight, queue[Len(queue)].key)
       THEN UNCHANGED <<w_pc, inflight>>
       ELSE /\ inflight' = inflight \cup {queue[Len(queue)].key}
            /\ w_pc' = "tick"
    /\ UNCHANGED <<call, ret, tx, next_id, ovars, tick_due, push_elapsed,
                   since_start, last_gap, rvars, xvars>>

\* lines 39-42: rx.recv() yields the oldest job, its slot goes to the oldest
\* suspended sender if there is one; a job whose key is in inflight is dropped
WorkerRecv ==
    /\ w_pc = "recv"
    /\ queue # <<>>
    /\ queue' = Tail(queue)
    /\ IF waiters # <<>>
       THEN /\ waiters' = Tail(waiters)
            /\ pc' = [pc EXCEPT ![Head(waiters)] = "send_ready"]
            /\ UNCHANGED permits
       ELSE /\ permits' = permits + 1
            /\ UNCHANGED <<waiters, pc>>
    /\ w_job' = Head(queue)
    /\ IF AlreadyInflight(inflight, Head(queue).key)
       THEN UNCHANGED <<w_pc, inflight>>
       ELSE /\ inflight' = inflight \cup {Head(queue).key}
            /\ w_pc' = "tick"
    /\ UNCHANGED <<call, ret, tx, next_id, ovars, tick_due, push_elapsed,
                   since_start, last_gap, rvars, xvars>>

\* lines 43-46: tick.tick() returns once the deadline is reached, and the push
\* starts under tokio::time::timeout
WorkerTick ==
    /\ w_pc = "tick"
    /\ tick_due <= 0
    /\ tick_due' = NextTimeout(tick_due, cfg.tick_ms)
    /\ push_elapsed' = 0
    /\ last_gap' = since_start
    /\ since_start' = 0
    /\ w_pc' = "push"
    /\ UNCHANGED <<cvars, ovars, qvars, w_job, inflight, rvars, xvars>>

\* (mutant) a push that returns leaves its key in inflight
PushDoneKeepKey ==
    /\ w_pc = "push"
    /\ push_elapsed' = 0
    /\ w_pc' = "recv"
    /\ UNCHANGED <<cvars, ovars, qvars, w_job, inflight, tick_due, since_start,
                   last_gap, rvars, xvars>>

\* lines 46, 56: dump_job returns (the push succeeded or failed) before the
\* timeout fires
PushDone ==
    /\ w_pc = "push"
    /\ inflight' = inflight \ {w_job.key}
    /\ push_elapsed' = 0
    /\ w_pc' = "recv"
    /\ UNCHANGED <<cvars, ovars, qvars, w_job, tick_due, since_start, last_gap,
                   rvars, xvars>>

\* (mutant) the push is awaited without tokio::time::timeout
TimeoutElapsedNever(elapsed, timeout_ms) == FALSE
\* line 46: tokio::time::timeout(timeout, ...) gives up at its deadline
TimeoutElapsed(elapsed, timeout_ms) == elapsed >= timeout_ms

\* (mutant) a push that timed out is tried again at the next tick
PushTimeoutRetry ==
    /\ w_pc = "push"
    /\ TimeoutElapsed(push_elapsed, cfg.timeout_ms)
    /\ push_elapsed' = 0
    /\ w_pc' = "tick"
    /\ UNCHANGED <<cvars, ovars, qvars, w_job, inflight, tick_due, since_start,
                   last_gap, rvars, xvars>>

\* lines 46-56: the timeout fires, the warning is logged, the key leaves
\* inflight
PushTimeout ==
    /\ w_pc = "push"
    /\ TimeoutElapsed(push_elapsed, cfg.timeout_ms)
    /\ inflight' = inflight \ {w_job.key}
    /\ push_elapsed' = 0
    /\ w_pc' = "recv"
    /\ UNCHANGED <<cvars, ovars, qvars, w_job, tick_due, since_start, last_gap,
                   rvars, xvars>>

\* one millisecond passes
TimeAdvance ==
    /\ w_pc # "none"
    /\ tick_due' = Max(tick_due - 1, 0 - MaxLate)
    /\ push_elapsed' = IF w_pc = "push"
                       THEN Min(push_elapsed + 1, cfg.timeout_ms)
                       ELSE push_elapsed
    /\ since_start' = Min(since_start + 1, cfg.tick_ms)
    /\ UNCHANGED <<cvars, ovars, qvars, w_pc, w_job, inflight, last_gap,
                   rvars, xvars>>

\* ------------------------------------------------------------------------
\* dump_remote.rs: specifications
\* ------------------------------------------------------------------------
\* the local store holds nothing
NoEntry == [held |-> FALSE, body |-> <<>>, max_age |-> 0, age |-> 0]
NoKey == <<>>
NoPair == <<>>

\* the components outside rewrite_base_tag and dump_remote.rs at rest
LookupOff ==
    /\ g_pc = "off"
    /\ g_key = NoKey
    /\ g_elapsed = 0
    /\ g_outcome = "none"
    /\ g_result = <<>>

KeyOff ==
    /\ k_pc = "off"
    /\ k_args = <<>>
    /\ k_keys = <<>>

SyncOff ==
    /\ dumped = {}
    /\ remote = <<>>
    /\ s_pc = "off"
    /\ payloads = <<>>
    /\ s_i = 0
    /\ s_log = <<>>

PolicyOff ==
    /\ p_args = <<>>
    /\ p_put = NoPair
    /\ p_seed = NoPair

HeadersOff ==
    /\ h_pc = "off"
    /\ h_input = [valid |-> 0, bad |-> 0]
    /\ h_left = [valid |-> 0, bad |-> 0]
    /\ h_index = 0
    /\ h_map = 0

StoreOff == store = <<>>

SiteOff ==
    /\ site = <<>>
    /\ website_key = <<>>
    /\ site_key = <<>>

RewriterOff ==
    /\ r_pc = "off"
    /\ base_url = NoUrl
    /\ utf8_ok = TRUE
    /\ html = <<>>
    /\ base_tag_inserted = FALSE
    /\ already_present = FALSE
    /\ stack = <<>>
    /\ buffer = <<>>
    /\ wrote_error = FALSE
    /\ fed_after_present = FALSE
    /\ result = NoResult

WorkerOff ==
    /\ pc = [p \in Procs |-> "idle"]
    /\ call = [p \in Procs |-> NoCall]
    /\ ret = [p \in Procs |-> "none"]
    /\ tx = [p \in Procs |-> 0]
    /\ next_id = 1
    /\ REMOTE_DUMP_TX = 0
    /\ once_sem = "free"
    /\ channels = 0
    /\ spawned = 0
    /\ cfg = NoCfg
    /\ queue = <<>>
    /\ permits = 0
    /\ waiters = <<>>
    /\ w_pc = "none"
    /\ w_job = NoJob
    /\ inflight = {}
    /\ tick_due = 0
    /\ push_elapsed = 0
    /\ since_start = 0
    /\ last_gap = 0

Init ==
    /\ WorkerOff /\ RewriterOff
    /\ SiteOff
    /\ StoreOff /\ LookupOff /\ KeyOff /\ SyncOff /\ PolicyOff /\ HeadersOff

Next ==
    \/ \E p \in Procs : CallInit(p)
    \/ \E p \in Procs : CallInitDefault(p)
    \/ \E p \in Procs : CallEnqueue(p)
    \/ \E p \in Procs : CallEnqueueBestEffort(p)
    \/ \E p \in Procs : InitInner(p)
    \/ \E p \in Procs : OnceWake(p)
    \/ \E p \in Procs : InitReturn(p)
    \/ \E p \in Procs : EnqueueBestEffort(p)
    \/ \E p \in Procs : Enqueue(p)
    \/ \E p \in Procs : EnqueueResume(p)
    \/ \E p \in Procs : TryEnqueue(p)
    \/ WorkerRecv
    \/ WorkerTick
    \/ PushDone
    \/ PushTimeout
    \/ TimeAdvance

Spec == Init /\ [][Next]_vars

\* a step of the worker task that needs no answer from the remote server
WorkerStep == WorkerRecv \/ WorkerTick \/ PushTimeout

\* a step of caller p inside a call
CallerStep(p) ==
    \/ InitInner(p)
    \/ OnceWake(p)
    \/ InitReturn(p)
    \/ EnqueueBestEffort(p)
    \/ Enqueue(p)
    \/ EnqueueResume(p)

\* the runtime keeps polling the worker task and every caller that can go on,
\* and time passes; nothing makes a push complete or a caller start a call
Fairness ==
    /\ WF_vars(WorkerStep)
    /\ WF_vars(TimeAdvance)
    /\ \A p \in Procs : WF_vars(CallerStep(p))

FairSpec == Spec /\ Fairness

\* ------------------------------------------------------------------------
\* dump_remote.rs: properties
\* ------------------------------------------------------------------------
QueueIds == {queue[i].id : i \in 1..Len(queue)}
Last(seq) == seq[Len(seq)]

\* C1: of two jobs with the same cache key, both accepted before the push of
\* the first has completed, only one is pushed: the worker never starts a
\* push for the second.
C1_OnePushPerKey == ~(w_pc = "push" /\ w_job.racing)

C7_BestEffortNeverSuspends ==
    [][\A p \in Procs :
         (pc[p] = "have_tx" /\ call[p].op = "enqueue_best_effort" /\ pc'[p] # pc[p]) =>
            /\ pc'[p] = "idle"
            /\ ret'[p] \in {"true", "false"}
            /\ Len(queue) = cfg.cap => ret'[p] = "false"
            /\ ret'[p] = "false" => queue' = queue
            /\ permits > 0 => ret'[p] = "true"
            /\ ret'[p] = "true" =>
                 /\ Len(queue') = Len(queue) + 1
                 /\ SubSeq(queue', 1, Len(queue)) = queue
                 /\ Last(queue').key = call[p].job.key]_vars

\* C7 witness: enqueue_best_effort has returned false on a queue of capacity 2
\* that holds two jobs
C7_Witness ==
    \E p \in Procs :
       /\ pc[p] = "idle"
       /\ ret[p] = "false"
       /\ cfg.cap = 2
       /\ Len(queue) = 2

\* C8: a call of enqueue that finds the queue full is suspended with its job;
\* a suspended call goes on only when the worker takes a job out of the
\* queue; the call returns Ok, and then its job is in the queue; and every
\* suspended call eventually returns Ok.
C8_Backpressure ==
    /\ [][\A p \in Procs :
            /\ (pc[p] = "have_tx" /\ call[p].op = "enqueue" /\ pc'[p] # pc[p]
                  /\ Len(queue) = cfg.cap) =>
                   (pc'[p] = "send_wait" /\ call'[p] = call[p] /\ queue' = queue)
            /\ (pc[p] = "send_wait" /\ pc'[p] # "send_wait") =>
                   (queue' = Tail(queue) /\ w_job' = Head(queue) /\ call'[p] = call[p])
            /\ (call[p].op = "enqueue" /\ pc[p] # "idle" /\ pc'[p] = "idle") =>
                   /\ ret'[p] = "Ok"
                   /\ Len(queue') = Len(queue) + 1
                   /\ Last(queue').key = call[p].job.key]_vars
    /\ \A p \in Procs : (pc[p] = "send_wait") ~> (pc[p] = "idle" /\ ret[p] = "Ok")

\* C8 witness: a suspended call of enqueue was handed the slot the worker
\* freed
C8_Witness ==
    \E p \in Procs :
       /\ pc[p] = "send_ready"
       /\ call[p].op = "enqueue"
       /\ Len(queue) < cfg.cap

\* C9: every job accepted into the queue is eventually received by the
\* worker, although no push ever has to complete: a push that lasts is given
\* up when its timeout expires.
C9_TimeoutUnblocks ==
    \A i \in 1..MaxJobs : (i \in QueueIds) ~> (w_job.id = i)

\* C9 witness: a push has reached its timeout while another job waits in the
\* queue
C9_Witness ==
    /\ w_pc = "push"
    /\ push_elapsed >= cfg.timeout_ms
    /\ queue # <<>>

\* C10: one channel is created and one worker task is spawned, every caller
\* holds a Sender of that channel, and the capacity, tick and timeout the
\* worker was started with never change, whatever later calls pass.
C10_InitOnce ==
    /\ [](/\ spawned <= 1
          /\ channels <= 1
          /\ Initialized => (spawned = 1 /\ REMOTE_DUMP_TX = 1)
          /\ \A p \in Procs :
               pc[p] \in {"have_tx", "send_wait", "send_ready"} => tx[p] = 1)
    /\ [][Initialized => cfg' = cfg]_vars

\* C10 witness: init_remote_dump_worker got the Sender of a worker that runs
\* with other values than the ones the call passed
C10_Witness ==
    \E p \in Procs :
       /\ pc[p] = "have_tx"
       /\ call[p].op = "init_remote_dump_worker"
       /\ tx[p] = 1
       /\ cfg.cap # ChannelCap(call[p].args.queue_cap)
       /\ cfg.timeout_ms # call[p].args.timeout_ms

\* C16: try_enqueue is one step that leaves its caller where it was and
\* leaves the cell, the channel count, the worker count and the worker
\* alone; with no worker initialized it returns false and nothing is queued;
\* with a worker it returns true iff a slot was free, the job then being the
\* new last element of the queue, and false with the queue unchanged when
\* the queue is full.
C16_TryEnqueue ==
    [][\A p \in Procs : TryEnqueue(p) =>
         /\ pc'[p] = "idle"
         /\ UNCHANGED <<ovars, waiters, wvars>>
         /\ ret'[p] \in {"try_true", "try_false"}
         /\ ~Initialized => (ret'[p] = "try_false" /\ queue' = queue)
         /\ Initialized =>
              /\ ret'[p] = "try_true" <=> permits > 0
              /\ Len(queue) = cfg.cap => ret'[p] = "try_false"
              /\ ret'[p] = "try_false" => queue' = queue
              /\ ret'[p] = "try_true" =>
                    /\ Len(queue') = Len(queue) + 1
                    /\ SubSeq(queue', 1, Len(queue)) = queue]_vars

\* C16 witness: try_enqueue returned false while another caller was inside
\* init_inner, and no worker is initialized
C16_Witness ==
    \E p \in Procs :
       /\ ret[p] = "try_false"
       /\ pc[p] = "idle"
       /\ once_sem = "held"
       /\ ~Initialized
       /\ spawned = 0

\* C17: a job leaves the queue only by being received, as the head of the
\* queue, and no job enters the queue but a new one at its end, so a job
\* received is never in the queue again; the worker waits for a tick only
\* with a job it has just received and starts a push only with the job it
\* waited with, so each job gets at most one push attempt; and when the
\* attempt is over, however it ends, the worker is back at recv with the
\* job's key out of inflight and the queue as it was.
C17_OneAttemptPerJob ==
    /\ [](\A i \in 1..Len(queue) :
            /\ queue[i].id > w_job.id
            /\ \A j \in 1..Len(queue) : i < j => queue[i].id < queue[j].id)
    /\ [][/\ w_job' # w_job =>
              (w_pc = "recv" /\ queue # <<>> /\ w_job' = Head(queue)
                 /\ queue' = Tail(queue))
          /\ queue' # queue =>
              \/ (queue # <<>> /\ queue' = Tail(queue) /\ w_job' = Head(queue))
              \/ (queue' = Append(queue, Last(queue')) /\ Last(queue').id = next_id
                    /\ next_id' = next_id + 1 /\ w_job' = w_job)
          /\ (w_pc' = "tick" /\ w_pc # "tick") =>
              (w_pc = "recv" /\ w_job'.id > w_job.id)
          /\ (w_pc' = "push" /\ w_pc # "push") =>
              (w_pc = "tick" /\ w_job' = w_job)
          /\ (w_pc = "push" /\ w_pc' # "push") =>
              (w_pc' = "recv" /\ w_job' = w_job /\ w_job.key \notin inflight'
                 /\ queue' = queue)]_vars

\* C17 witness: the attempt for the second job is over, another job waits in
\* the queue
C17_Witness ==
    /\ w_pc = "recv"
    /\ w_job.id = 2
    /\ w_job.key \notin inflight
    /\ queue # <<>>

\* C21: push attempts start in arrival order: the accepted jobs are numbered
\* in the order they enter the queue, a push starts with the job the worker
\* holds, and the number of the job the worker holds never goes down, so of
\* two jobs that are both pushed the one accepted first is pushed first;
\* when a push starts, every job still queued was accepted later.
C21_PushInArrivalOrder ==
    [][/\ w_job'.id >= w_job.id
       /\ Len(queue') > Len(queue) =>
            (Last(queue').id = next_id /\ next_id' = next_id + 1
               /\ \A i \in 1..Len(queue) : queue[i].id < next_id)
       /\ (w_pc' = "push" /\ w_pc # "push") =>
            /\ w_job' = w_job
            /\ w_job.id >= 1
            /\ \A i \in 1..Len(queue') : queue'[i].id > w_job.id]_vars

\* C21 witness: the push of the third job accepted has just started, the
\* interval's next deadline lies ahead
C21_Witness ==
    /\ w_pc = "push"
    /\ push_elapsed = 0
    /\ w_job.id = 3
    /\ last_gap >= cfg.tick_ms
    /\ tick_due > 0

\* C23: inflight holds at most one key: none while the worker waits in recv,
\* the key of the job in hand while it waits for the tick or pushes; there
\* is one worker task, so one push at a time; and inflight changes only in
\* a step of the worker, on receiving a job or on ending a push.
C23_InflightInvariant ==
    /\ [](/\ Cardinality(inflight) <= 1
          /\ w_pc \in {"none", "recv"} => inflight = {}
          /\ w_pc \in {"tick", "push"} => inflight = {w_job.key}
          /\ spawned <= 1)
    /\ [][inflight' # inflight =>
            /\ w_pc' # w_pc
            /\ w_pc \in {"recv", "push"}
            /\ UNCHANGED <<call, ret, tx, next_id, ovars>>]_vars

\* C23 witness: a push is in progress, its key is the one key in inflight,
\* and the next job in the queue has the same key
C23_Witness ==
    /\ w_pc = "push"
    /\ inflight = {w_job.key}
    /\ queue # <<>>
    /\ Head(queue).key = w_job.key

\* ------------------------------------------------------------------------
\* cache.rs: create_cache_key_raw
\* ------------------------------------------------------------------------
\* strings are sequences of characters; Option<T> is <<>> (None) or <<x>>
Chars == {"a", ":"}
Strs == UNION {[1..n -> Chars] : n \in 0..MaxStr}
None == <<>>
Some(x) == <<x>>
Option(S) == {None} \cup {Some(x) : x \in S}

GET == <<"G", "E", "T">>
Colon == <<":">>
OverrideMethods == {None, Some(GET), Some(<<"P">>)}

\* override_method.unwrap_or_else(|| "GET".into())
MethodOrGet(override_method) ==
    IF override_method = None THEN GET ELSE override_method[1]

\* lines 32-51: format!("{}:{}:{}", method, uri, authentication) with auth,
\* format!("{}:{}", method, uri) without
create_cache_key_raw(uri, override_method, auth) ==
    IF auth # None
    THEN MethodOrGet(override_method) \o Colon \o uri \o Colon \o auth[1]
    ELSE MethodOrGet(override_method) \o Colon \o uri

KeyArgs == [uri : Strs, override_method : OverrideMethods, auth : Option(Strs)]

InitKey ==
    /\ WorkerOff /\ RewriterOff
    /\ SiteOff
    /\ StoreOff /\ LookupOff /\ SyncOff /\ PolicyOff /\ HeadersOff
    /\ k_pc = "args"
    /\ k_args \in KeyArgs \X KeyArgs
    /\ k_keys = <<>>

\* create_cache_key_raw is called on each of the two triples
DeriveKeys ==
    /\ k_pc = "args"
    /\ k_keys' = [i \in 1..2 |->
                    create_cache_key_raw(k_args[i].uri, k_args[i].override_method,
                                         k_args[i].auth)]
    /\ k_pc' = "done"
    /\ UNCHANGED <<k_args, rvars, cvars, ovars, qvars, wvars, mvars, gvars, svars,
                   pvars, hvars, tvars>>

NextKey == DeriveKeys

SpecKey == InitKey /\ [][NextKey]_vars

\* the triple (uri, method, auth) of an argument triple, an absent method
\* counted as GET
Triple(a) == <<a.uri, MethodOrGet(a.override_method), a.auth>>

\* C13: create_cache_key_raw is injective over the triple (uri, method, auth),
\* strings containing ':' included: equal triples give equal keys, different
\* triples give different keys, and an absent auth never gives the key of an
\* empty-string auth.
C13_KeyInjective ==
    k_pc = "done" =>
        (k_keys[1] = k_keys[2] <=> Triple(k_args[1]) = Triple(k_args[2]))

\* ------------------------------------------------------------------------
\* cache.rs: get_cached_url over CACACHE_MANAGER
\* ------------------------------------------------------------------------
\* line 56: Duration::from_millis(60)
LookupTimeoutMs == 60

\* the (target_url, auth_opt) pairs get_cached_url is called with
LookupArgs == {[url |-> <<"a">>, auth |-> None], [url |-> <<"a">>, auth |-> Some(<<"a">>)]}
\* line 55
CacheUrl(a) == create_cache_key_raw(a.url, None, a.auth)
LookupKeys == {CacheUrl(a) : a \in LookupArgs}
Bodies == {<<0>>, <<255>>}

\* (mutant) an entry is taken for fresh whatever its age
IsStaleNever(entry) == FALSE
\* CachePolicy::is_stale(now): the age of the response at now has reached the
\* freshness lifetime; age stands for now - response time
IsStale(entry) == entry.age >= entry.max_age

InitLookup ==
    /\ WorkerOff /\ RewriterOff
    /\ SiteOff
    /\ KeyOff /\ SyncOff /\ PolicyOff /\ HeadersOff
    /\ store = [k \in LookupKeys |-> NoEntry]
    /\ g_pc = "idle"
    /\ g_key = NoKey
    /\ g_elapsed = 0
    /\ g_outcome = "none"
    /\ g_result = None

\* put_hybrid_cache, lines 318-336: the entry is written under cache_key with
\* the policy CachePolicy::new computed, whose freshness lifetime is max_age
PutHybridCache(k, body, max_age) ==
    /\ store' = [store EXCEPT ![k] = [held |-> TRUE, body |-> body, max_age |-> max_age,
                                    age |-> 0]]
    /\ UNCHANGED <<gvars, rvars, cvars, ovars, qvars, wvars, kvars, svars, pvars,
                   hvars, tvars>>

\* lines 55-58: the key is derived and the lookup starts under a timeout
GetCachedUrl(a) ==
    /\ g_pc = "idle"
    /\ g_pc' = "lookup"
    /\ g_key' = CacheUrl(a)
    /\ g_elapsed' = 0
    /\ g_outcome' = "none"
    /\ g_result' = None
    /\ UNCHANGED <<mvars, rvars, cvars, ovars, qvars, wvars, kvars, svars, pvars,
                   hvars, tvars>>

\* the call returns r
GetReturn(outcome, r) ==
    /\ g_pc' = "idle"
    /\ g_outcome' = outcome
    /\ g_result' = r
    /\ g_elapsed' = 0
    /\ UNCHANGED <<g_key, mvars, rvars, cvars, ovars, qvars, wvars, kvars, svars,
                   pvars, hvars, tvars>>

\* lines 61-69: CACACHE_MANAGER.get answers Ok before the timeout: the body is
\* returned for an entry whose policy is not stale now, None otherwise
LookupAnswer ==
    /\ g_pc = "lookup"
    /\ IF store[g_key] = NoEntry
       THEN GetReturn("miss", None)
       ELSE IF ~IsStale(store[g_key])
       THEN GetReturn("fresh", Some(store[g_key].body))
       ELSE GetReturn("stale", None)

\* lines 62, 69: CACACHE_MANAGER.get answers Err before the timeout
LookupError ==
    /\ g_pc = "lookup"
    /\ GetReturn("error", None)

\* (mutant) the lookup is awaited without tokio::time::timeout
LookupTimeoutNever == FALSE
\* line 56: tokio::time::timeout gives up at its deadline
LookupTimeoutElapsed == g_elapsed >= LookupTimeoutMs

\* lines 56-61, 69: the timeout fires before the store has answered
LookupTimeout ==
    /\ g_pc = "lookup"
    /\ LookupTimeoutElapsed
    /\ GetReturn("timeout", None)

\* one millisecond passes; a timer that is due fires before the next one does
TickLookup ==
    /\ g_pc = "lookup" => g_elapsed < LookupTimeoutMs
    /\ store' = [k \in DOMAIN store |->
                   IF store[k] = NoEntry THEN NoEntry
                   ELSE [store[k] EXCEPT !.age = Min(@ + 1, store[k].max_age)]]
    /\ g_elapsed' = IF g_pc = "lookup" THEN g_elapsed + 1 ELSE g_elapsed
    /\ UNCHANGED <<g_pc, g_key, g_outcome, g_result, rvars, cvars, ovars, qvars,
                   wvars, kvars, svars, pvars, hvars, tvars>>

NextLookup ==
    \/ \E k \in LookupKeys, b \in Bodies, m \in 0..MaxFresh : PutHybridCache(k, b, m)
    \/ \E a \in LookupArgs : GetCachedUrl(a)
    \/ LookupAnswer
    \/ LookupError
    \/ LookupTimeout
    \/ TickLookup

SpecLookup == InitLookup /\ [][NextLookup]_vars

\* time passes and a timer that is due fires; nothing makes the store answer
FairnessLookup == WF_vars(TickLookup) /\ WF_vars(LookupTimeout)

FairSpecLookup == SpecLookup /\ FairnessLookup

\* C11: freshness is evaluated at every read against the clock of that read:
\* when the store hands get_cached_url an entry, the call returns its body if
\* the entry's age is below its freshness lifetime at that moment and None
\* if the lifetime has elapsed; no step of get_cached_url removes or changes
\* an entry of the store.
C11_FreshnessAtRead ==
    [][/\ g_pc' # g_pc => store' = store
       /\ (g_pc = "lookup" /\ g_outcome' \in {"fresh", "stale"}) =>
            /\ store[g_key] # NoEntry
            /\ store[g_key].age < store[g_key].max_age =>
                   g_result' = Some(store[g_key].body)
            /\ store[g_key].age >= store[g_key].max_age => g_result' = None]_vars

\* C11 witness: an entry written fresh was read after its lifetime: the call
\* returned None and the store still holds the entry
C11_Witness ==
    /\ g_pc = "idle"
    /\ g_outcome = "stale"
    /\ g_result = None
    /\ store[g_key] # NoEntry
    /\ store[g_key].max_age > 0
    /\ store[g_key].age >= store[g_key].max_age

\* C12: get_cached_url returns Some(body) exactly when the lookup finished
\* within the bound with an entry that is not stale; after a timeout, a miss,
\* a store error or a stale entry it returns None, never an error; a pending
\* call is never older than the bound, and it returns even if the store never
\* answers.
C12_BoundedLookup ==
    /\ [](/\ g_result \in Option(Bodies)
          /\ g_outcome \in {"none", "fresh", "stale", "miss", "error", "timeout"}
          /\ g_result # None <=> g_outcome = "fresh"
          /\ g_pc = "lookup" => g_elapsed <= LookupTimeoutMs)
    /\ (g_pc = "lookup") ~> (g_pc = "idle")

\* C12 witness: the store did not answer for the whole bound and the call
\* returned None
C12_Witness ==
    /\ g_pc = "idle"
    /\ g_outcome = "timeout"
    /\ g_result = None
    /\ store[g_key] # NoEntry
    /\ ~IsStale(store[g_key])

\* ------------------------------------------------------------------------
\* remote.rs: base64, general_purpose::STANDARD
\* ------------------------------------------------------------------------
\* a base64 text is a sequence of symbols: 0..63 for the alphabet, Pad for '='
Pad == 64

ByteVals == {0, 77, 255}
ByteSeqs == UNION {[1..n -> ByteVals] : n \in 0..MaxBody}

\* the symbols of one group of 1 to 3 bytes, without padding
GroupSymbols(g) ==
    LET n == g[1] * 65536
             + (IF Len(g) >= 2 THEN g[2] ELSE 0) * 256
             + (IF Len(g) >= 3 THEN g[3] ELSE 0)
        all == <<n \div 262144, (n \div 4096) % 64, (n \div 64) % 64, n % 64>>
    IN SubSeq(all, 1, Len(g) + 1)

\* (mutant) the engine STANDARD_NO_PAD: no '=' is appended
RECURSIVE Base64EncodeNoPad(_)
Base64EncodeNoPad(bytes) ==
    IF bytes = <<>> THEN <<>>
    ELSE IF Len(bytes) <= 3 THEN GroupSymbols(bytes)
    ELSE GroupSymbols(SubSeq(bytes, 1, 3))
            \o Base64EncodeNoPad(SubSeq(bytes, 4, Len(bytes)))

\* line 61: general_purpose::STANDARD.encode(&http_response.body)
RECURSIVE Base64Encode(_)
Base64Encode(bytes) ==
    IF bytes = <<>> THEN <<>>
    ELSE IF Len(bytes) <= 3
    THEN GroupSymbols(bytes) \o [i \in 1..(3 - Len(bytes)) |-> Pad]
    ELSE GroupSymbols(SubSeq(bytes, 1, 3))
            \o Base64Encode(SubSeq(bytes, 4, Len(bytes)))

DecodeError == [ok |-> FALSE, bytes |-> <<>>]

\* the bytes of one group of 4 symbols; padding is canonical and the bits
\* left over must be zero
DecodeQuad(q) ==
    IF q[1] = Pad \/ q[2] = Pad THEN DecodeError
    ELSE IF q[3] = Pad
    THEN IF q[4] = Pad /\ q[2] % 16 = 0
         THEN [ok |-> TRUE, bytes |-> <<q[1] * 4 + q[2] \div 16>>]
         ELSE DecodeError
    ELSE IF q[4] = Pad
    THEN IF q[3] % 4 = 0
         THEN [ok |-> TRUE,
               bytes |-> <<q[1] * 4 + q[2] \div 16, (q[2] % 16) * 16 + q[3] \div 4>>]
         ELSE DecodeError
    ELSE [ok |-> TRUE,
          bytes |-> <<q[1] * 4 + q[2] \div 16, (q[2] % 16) * 16 + q[3] \div 4,
                      (q[3] % 4) * 64 + q[4]>>]

\* lines 195-197: general_purpose::STANDARD.decode(&payload.body_base64)
RECURSIVE Base64Decode(_)
Base64Decode(text) ==
    IF text = <<>> THEN [ok |-> TRUE, bytes |-> <<>>]
    ELSE IF Len(text) < 4 THEN DecodeError
    ELSE LET first == DecodeQuad(SubSeq(text, 1, 4))
             rest == Base64Decode(SubSeq(text, 5, Len(text)))
         IN IF ~first.ok \/ ~rest.ok THEN DecodeError
            ELSE IF Len(first.bytes) < 3 /\ Len(text) > 4 THEN DecodeError
            ELSE [ok |-> TRUE, bytes |-> first.bytes \o rest.bytes]

\* ------------------------------------------------------------------------
\* remote.rs: dump_to_remote_cache, get_cache_site
\* ------------------------------------------------------------------------
ResourceKeys == LookupKeys

\* payload.url by what its two parsers make of it: "http" is an absolute http
\* URL, "relative" is a path (an http::Uri, no url::Url), "garbage" is neither
UrlKinds == {"http", "relative", "garbage"}
\* line 200: payload.url.parse::<Uri>()
UriParses(url) == url \in {"http", "relative"}
\* line 220: Url::parse(&payload.url)
UrlParses(url) == url = "http"

\* lines 63-72: the payload of a response with an http URL
HybridCachePayload(cache_key, body) ==
    [resource_key |-> cache_key, url |-> "http", body_base64 |-> Base64Encode(body)]

\* base64 texts a payload of another origin may carry: "AA==", "A", "AB=="
ForeignTexts == {<<0, 0, Pad, Pad>>, <<0>>, <<0, 1, Pad, Pad>>}
ForeignPayloads ==
    [resource_key : ResourceKeys, url : UrlKinds, body_base64 : ForeignTexts]

\* the freshness lifetime CachePolicy::new (line 216) derives from a payload's
\* headers; the payloads here carry one header set
SeedMaxAge == MaxFresh

SyncIdle ==
    /\ WorkerOff /\ RewriterOff
    /\ SiteOff
    /\ LookupOff /\ KeyOff /\ PolicyOff /\ HeadersOff
    /\ store = [k \in ResourceKeys |-> NoEntry]
    /\ dumped = {}
    /\ s_pc = "idle"
    /\ payloads = <<>>
    /\ s_i = 0
    /\ s_log = <<>>

InitRoundTrip == SyncIdle /\ remote = <<>>

InitSeed ==
    /\ SyncIdle
    /\ remote \in UNION {[1..n -> ForeignPayloads] : n \in 0..MaxPayloads}

\* lines 51-113: the payload is built and posted, the server files it
DumpToRemoteCache(cache_key, body) ==
    /\ s_pc = "idle"
    /\ remote = <<>>
    /\ remote' = <<HybridCachePayload(cache_key, body)>>
    /\ dumped' = dumped \cup {[cache_key |-> cache_key, body |-> body]}
    /\ UNCHANGED <<s_pc, payloads, s_i, s_log, mvars, rvars, cvars, ovars, qvars,
                   wvars, gvars, kvars, pvars, hvars, tvars>>

\* lines 133-169: the GET fails, has no success status, or its body is no
\* list of payloads
GetCacheSiteFailed ==
    /\ s_pc = "idle"
    /\ s_pc' = "done"
    /\ UNCHANGED <<dumped, remote, payloads, s_i, s_log, mvars, rvars, cvars,
                   ovars, qvars, wvars, gvars, kvars, pvars, hvars, tvars>>

\* lines 133-175: the server answers with the payloads it holds
GetCacheSite ==
    /\ s_pc = "idle"
    /\ payloads' = remote
    /\ s_i' = 0
    /\ s_log' = <<>>
    /\ s_pc' = "seeding"
    /\ UNCHANGED <<dumped, remote, mvars, rvars, cvars, ovars, qvars, wvars, gvars,
                   kvars, pvars, hvars, tvars>>

\* lines 194-240 up to the put: the first failure of the payload, or "put"
SeedParse(payload) ==
    IF ~Base64Decode(payload.body_base64).ok THEN "base64"
    ELSE IF ~UriParses(payload.url) THEN "uri"
    ELSE IF ~UrlParses(payload.url) THEN "url"
    ELSE "put"

\* (mutant) the loop returns at the first entry that fails
SeedPayloadAbort ==
    /\ s_pc = "seeding"
    /\ s_i < Len(payloads)
    /\ LET payload == payloads[s_i + 1]
           parsed == SeedParse(payload)
       IN \E put_ok \in BOOLEAN :
            IF parsed = "put" /\ put_ok
            THEN /\ store' = [store EXCEPT ![payload.resource_key] =
                                [held |-> TRUE,
                                 body |-> Base64Decode(payload.body_base64).bytes,
                                 max_age |-> SeedMaxAge, age |-> 0]]
                 /\ s_log' = Append(s_log, "put")
                 /\ s_i' = s_i + 1
                 /\ UNCHANGED s_pc
            ELSE /\ s_log' = Append(s_log, IF parsed = "put" THEN "store" ELSE parsed)
                 /\ s_i' = s_i + 1
                 /\ s_pc' = "done"
                 /\ UNCHANGED store
    /\ UNCHANGED <<dumped, remote, payloads, rvars, cvars, ovars, qvars, wvars,
                   gvars, kvars, pvars, hvars, tvars>>

\* lines 178-187 and 194-240: one turn of the loop: the entry is seeded, or
\* its failure is warned about, and the loop goes on
SeedPayload ==
    /\ s_pc = "seeding"
    /\ s_i < Len(payloads)
    /\ LET payload == payloads[s_i + 1]
           parsed == SeedParse(payload)
       IN \E put_ok \in BOOLEAN :
            IF parsed = "put" /\ put_ok
            THEN /\ store' = [store EXCEPT ![payload.resource_key] =
                                [held |-> TRUE,
                                 body |-> Base64Decode(payload.body_base64).bytes,
                                 max_age |-> SeedMaxAge, age |-> 0]]
                 /\ s_log' = Append(s_log, "put")
            ELSE /\ s_log' = Append(s_log, IF parsed = "put" THEN "store" ELSE parsed)
                 /\ UNCHANGED store
    /\ s_i' = s_i + 1
    /\ UNCHANGED <<s_pc, dumped, remote, payloads, rvars, cvars, ovars, qvars,
                   wvars, gvars, kvars, pvars, hvars, tvars>>

\* line 178: the list is exhausted
SeedDone ==
    /\ s_pc = "seeding"
    /\ s_i = Len(payloads)
    /\ s_pc' = "done"
    /\ UNCHANGED <<dumped, remote, payloads, s_i, s_log, mvars, rvars, cvars,
                   ovars, qvars, wvars, gvars, kvars, pvars, hvars, tvars>>

NextSeed ==
    \/ GetCacheSiteFailed
    \/ GetCacheSite
    \/ SeedPayload
    \/ SeedDone

NextRoundTrip ==
    \/ \E k \in ResourceKeys, b \in ByteSeqs : DumpToRemoteCache(k, b)
    \/ NextSeed

SpecRoundTrip == InitRoundTrip /\ [][NextRoundTrip]_vars

SpecSeed == InitSeed /\ [][NextSeed]_vars

\* C14: the payload dump_to_remote_cache builds for a body, returned
\* unchanged by the server, never fails to decode or parse in
\* get_cache_site, and when the store accepts the put the entry under the
\* payload's resource key, which is the pushed cache key, holds a body equal
\* byte for byte to the original one.
C14_BodyRoundTrip ==
    \A d \in dumped :
       /\ \A i \in 1..Len(remote) :
             /\ remote[i].resource_key = d.cache_key
             /\ Base64Decode(remote[i].body_base64) = [ok |-> TRUE, bytes |-> d.body]
       /\ \A i \in 1..Len(s_log) :
             /\ s_log[i] \in {"put", "store"}
             /\ s_log[i] = "put" =>
                   /\ store[d.cache_key].held
                   /\ store[d.cache_key].body = d.body
                   /\ \A k \in ResourceKeys \ {d.cache_key} : store[k] = NoEntry

\* C14 witness: a body of two bytes, encoded with padding, is back in the
\* store
C14_Witness ==
    \E d \in dumped :
       /\ Len(d.body) = 2
       /\ d.body[1] # d.body[2]
       /\ s_pc = "done"
       /\ store[d.cache_key].held
       /\ store[d.cache_key].body = d.body

\* the entry up to i that was last put under key k, 0 if none
LastPut(k, i) ==
    LET puts == {j \in 1..i : s_log[j] = "put" /\ payloads[j].resource_key = k}
    IN IF puts = {} THEN 0 ELSE CHOOSE j \in puts : \A l \in puts : l <= j

\* C15: get_cache_site goes through the whole list whatever entries fail:
\* an entry is put iff its body decodes, its URL parses and the store
\* accepts it; the store holds under each resource key the body of the last
\* entry put under it, and nothing under a key no entry was put under.
C15_EntryIsolation ==
    s_pc \in {"seeding", "done"} =>
       /\ Len(s_log) = s_i
       /\ s_pc = "done" => s_i = Len(payloads)
       /\ \A i \in 1..s_i :
             /\ s_log[i] \in {"put", "store"} <=>
                   /\ Base64Decode(payloads[i].body_base64).ok
                   /\ UriParses(payloads[i].url) /\ UrlParses(payloads[i].url)
       /\ \A k \in ResourceKeys :
             IF LastPut(k, s_i) = 0
             THEN store[k] = NoEntry
             ELSE /\ store[k].held
                  /\ store[k].body =
                        Base64Decode(payloads[LastPut(k, s_i)].body_base64).bytes

\* C15 witness: of three entries the first and the last failed, each in its
\* own way, and the one between them was put
C15_Witness ==
    /\ s_pc = "done"
    /\ Len(payloads) = 3
    /\ s_log[1] = "base64"
    /\ s_log[2] = "put"
    /\ s_log[3] \in {"uri", "url", "store"}

\* ------------------------------------------------------------------------
\* rewrite_base_tag: the function body
\* ------------------------------------------------------------------------
RS == [inserted |-> base_tag_inserted, present |-> already_present,
       stack |-> stack, out |-> buffer]

SetRS(rs) ==
    /\ base_tag_inserted' = rs.inserted
    /\ already_present' = rs.present
    /\ stack' = rs.stack
    /\ buffer' = rs.out

InitRewrite ==
    /\ WorkerOff
    /\ SiteOff
    /\ StoreOff /\ LookupOff /\ KeyOff /\ SyncOff /\ PolicyOff /\ HeadersOff
    /\ r_pc = "start"
    /\ base_url \in BaseUrls
    /\ utf8_ok \in BOOLEAN
    /\ html = <<>>
    /\ base_tag_inserted = FALSE
    /\ already_present = FALSE
    /\ stack = <<>>
    /\ buffer = <<>>
    /\ wrote_error = FALSE
    /\ fed_after_present = FALSE
    /\ result = NoResult

\* lines 77-79: html.is_empty()
EmptyInput ==
    /\ UNCHANGED <<cvars, ovars, qvars, wvars, xvars>>
    /\ r_pc = "start"
    /\ r_pc' = "done"
    /\ result' = [text |-> <<>>, exact |-> TRUE]
    /\ UNCHANGED <<base_url, utf8_ok, html, base_tag_inserted, already_present,
                   stack, buffer, wrote_error, fed_after_present>>

\* lines 81-172: html is not empty, the rewriter and the chunk stream are built
StartRewriter ==
    /\ UNCHANGED <<cvars, ovars, qvars, wvars, xvars>>
    /\ r_pc = "start"
    /\ r_pc' = "loop"
    /\ UNCHANGED <<base_url, utf8_ok, html, base_tag_inserted, already_present,
                   stack, buffer, wrote_error, fed_after_present, result>>

\* (mutant) the loop never looks at already_present
EarlyExitNever == FALSE
\* line 176: the early exit test of the loop
EarlyExit == already_present

\* lines 174-183, stream.next() yields chunk c and rewriter.write(c) is Ok
LoopWrite(c) ==
    /\ UNCHANGED <<cvars, ovars, qvars, wvars, xvars>>
    /\ r_pc = "loop"
    /\ ~EarlyExit
    /\ Len(html) + Len(c) <= MaxDoc
    /\ html' = html \o c
    /\ SetRS(RewriterWrite(RS, c, base_url))
    /\ fed_after_present' = (fed_after_present \/ already_present)
    /\ UNCHANGED <<r_pc, base_url, utf8_ok, wrote_error, result>>

\* lines 179-182, stream.next() yields a chunk and rewriter.write is Err: the
\* chunk reaches no handler, and html is not read again unless already_present
\* is set, which the guard excludes
LoopWriteError ==
    /\ UNCHANGED <<cvars, ovars, qvars, wvars, xvars>>
    /\ r_pc = "loop"
    /\ ~EarlyExit
    /\ Len(html) < MaxDoc
    /\ wrote_error' = TRUE
    /\ r_pc' = "end"
    /\ UNCHANGED <<base_url, utf8_ok, html, base_tag_inserted, already_present,
                   stack, buffer, fed_after_present, result>>

\* lines 176-178, stream.next() yields chunk c and already_present is set:
\* c and what follows it are never written
LoopBreak(c) ==
    /\ UNCHANGED <<cvars, ovars, qvars, wvars, xvars>>
    /\ r_pc = "loop"
    /\ EarlyExit
    /\ Len(html) + Len(c) <= MaxDoc
    /\ html' = html \o c
    /\ r_pc' = "end"
    /\ UNCHANGED <<base_url, utf8_ok, base_tag_inserted, already_present, stack,
                   buffer, wrote_error, fed_after_present, result>>

\* line 174, stream.next() is None
LoopDone ==
    /\ UNCHANGED <<cvars, ovars, qvars, wvars, xvars>>
    /\ r_pc = "loop"
    /\ html # <<>>
    /\ r_pc' = "end"
    /\ UNCHANGED <<base_url, utf8_ok, html, base_tag_inserted, already_present,
                   stack, buffer, wrote_error, fed_after_present, result>>

\* lines 185-193: rewriter.end() opens no element and closes none
ReturnResult ==
    /\ UNCHANGED <<cvars, ovars, qvars, wvars, xvars>>
    /\ r_pc = "end"
    /\ result' = IF already_present
                 THEN FromUtf8OrDefault(html, utf8_ok)
                 ELSE AutoEncodeBytes(buffer, utf8_ok)
    /\ r_pc' = "done"
    /\ UNCHANGED <<base_url, utf8_ok, html, base_tag_inserted, already_present,
                   stack, buffer, wrote_error, fed_after_present>>

NextRewrite ==
    \/ EmptyInput
    \/ StartRewriter
    \/ \E c \in Chunks : LoopWrite(c)
    \/ LoopWriteError
    \/ \E c \in Chunks : LoopBreak(c)
    \/ LoopDone
    \/ ReturnResult

SpecRewrite == InitRewrite /\ [][NextRewrite]_vars

\* ------------------------------------------------------------------------
\* rewrite_base_tag: properties
\* ------------------------------------------------------------------------
Positions(seq, tok) == {i \in 1..Len(seq) : seq[i] = tok}
Count(seq, tok) == Cardinality(Positions(seq, tok))
InsertCount(seq) == Cardinality({i \in 1..Len(seq) : IsInsert(seq[i])})
\* seq without the inserted tokens
RECURSIVE StripInserts(_)
StripInserts(seq) ==
    IF seq = <<>> THEN <<>>
    ELSE IF IsInsert(Head(seq)) THEN StripInserts(Tail(seq))
         ELSE <<Head(seq)>> \o StripInserts(Tail(seq))
NoBase(doc) == \A i \in 1..Len(doc) : doc[i][1] # "base"
\* tok is inserted in seq immediately before the token before
InsertedBefore(seq, tok, before) ==
    \E i \in 1..(Len(seq) - 1) : seq[i] = tok /\ seq[i + 1] = before
Returned == r_pc = "done" /\ ~wrote_error

\* C2: at most one insertion per document: over every sequence of open and
\* close events, the head-closing and html-closing handlers together insert
\* 0 or 1 times.
C2_AtMostOneInsertion == InsertCount(buffer) <= 1

\* a document with one html element that holds one head element, both closed,
\* and no base element
DocHtmlHeadNoBase(doc) ==
    /\ NoBase(doc)
    /\ Count(doc, OpenHtml) = 1 /\ Count(doc, CloseHtml) = 1
    /\ Count(doc, OpenHead) = 1 /\ Count(doc, CloseHead) = 1
    /\ \E a, b, c, d \in 1..Len(doc) :
         /\ a < b /\ b < c /\ c < d
         /\ doc[a] = OpenHtml /\ doc[b] = OpenHead
         /\ doc[c] = CloseHead /\ doc[d] = CloseHtml

\* C3: for a document with an html element holding a head element and no
\* base element, the output holds exactly one inserted base tag, with the
\* base URL as href, immediately before the closing head tag, and no
\* synthesized head block before the closing html tag.
C3_OneBaseBeforeHeadEnd ==
    (Returned /\ DocHtmlHeadNoBase(html)) =>
        /\ InsertCount(result.text) = 1
        /\ InsertedBefore(result.text, InsBase(base_url), CloseHead)
        /\ Count(result.text, InsHeadBlock(base_url)) = 0

\* a document with one html element, closed, no head element and no base
\* element
DocHtmlNoHeadNoBase(doc) ==
    /\ NoBase(doc)
    /\ Count(doc, OpenHtml) = 1
    /\ Count(doc, OpenHead) = 0
    /\ \E a, d \in 1..Len(doc) : a < d /\ doc[a] = OpenHtml /\ doc[d] = CloseHtml

\* C4: for a document with an html element, no head element and no base
\* element, the output holds exactly one synthesized head block, its base tag
\* carrying the base URL, immediately before the closing html tag, and
\* nothing else is changed.
C4_HeadlessInsertion ==
    (Returned /\ DocHtmlNoHeadNoBase(html)) =>
        /\ InsertCount(result.text) = 1
        /\ InsertedBefore(result.text, InsHeadBlock(base_url), CloseHtml)
        /\ StripInserts(result.text) = html

\* C4 witness: a head-less document with text in its html element has been
\* rewritten
C4_Witness ==
    /\ Returned
    /\ DocHtmlNoHeadNoBase(html)
    /\ Count(html, Text) > 0
    /\ base_url # NoUrl
    /\ InsertCount(result.text) = 1

\* the rewriter met a base element with an absolute href, and no insertion
\* came before it
AbsBaseBeforeInsert ==
    \E i \in 1..Len(buffer) :
       /\ buffer[i] = BaseAbs
       /\ \A j \in 1..(i - 1) : ~IsInsert(buffer[j])

\* C5 (as stated): with an absolute base element met before any insertion, no
\* further chunk is written and the original document text is returned
\* unchanged, with no inserted base tag.
C5_OriginalReturned ==
    (r_pc = "done" /\ AbsBaseBeforeInsert) =>
        /\ ~fed_after_present
        /\ result = [text |-> html, exact |-> TRUE]

\* C5 (amended): with an absolute base element met before any insertion, no
\* further chunk is written; the original document text is returned unchanged
\* when the html bytes are valid UTF-8, and the empty string when they are
\* not; no inserted base tag is in the result.
C5_OriginalOrEmptyReturned ==
    (r_pc = "done" /\ AbsBaseBeforeInsert) =>
        /\ ~fed_after_present
        /\ utf8_ok => result = [text |-> html, exact |-> TRUE]
        /\ ~utf8_ok => result.text = <<>>
        /\ InsertCount(result.text) = 0

\* C5 witness: a valid UTF-8 document with an absolute base element followed
\* by a closing head or html tag was returned as it came
C5_Witness ==
    /\ r_pc = "done"
    /\ AbsBaseBeforeInsert
    /\ utf8_ok
    /\ \E i, j \in 1..Len(html) :
         i < j /\ html[i] = BaseAbs /\ html[j] \in {CloseHead, CloseHtml}
    /\ result.text = html

\* C18: once a base tag has been inserted at a closing head or html tag, the
\* rewriter is never in the already-present state, a base element written
\* after the insertion stays in the output like every other token, and the
\* result is the rewritten output with the inserted tag, never the original
\* document.
C18_InsertedAbsorbing ==
    /\ [](InsertCount(buffer) > 0 => ~already_present)
    /\ []((Returned /\ InsertCount(buffer) > 0) => result.text = buffer)
    /\ [][InsertCount(buffer) > 0 =>
            StripInserts(buffer') =
               StripInserts(buffer) \o SubSeq(html', Len(html) + 1, Len(html'))]_vars

\* ------------------------------------------------------------------------
\* cache.rs: convert_headers, the loop
\* ------------------------------------------------------------------------
\* line 283: if index > 1000
HeaderScanLimit == 1000

\* numbers of valid pairs of the header sets converted
ValidCounts == {0, 1, 2, MaxHeaders - 1, MaxHeaders}

InitHeaders ==
    /\ WorkerOff /\ RewriterOff
    /\ SiteOff
    /\ StoreOff /\ LookupOff /\ KeyOff /\ SyncOff /\ PolicyOff
    /\ h_pc = "loop"
    /\ h_input \in [valid : ValidCounts, bad : 0..MaxBad]
    /\ h_left = h_input
    /\ h_index = 0
    /\ h_map = 0

\* line 283: the test that ends the loop after the pair at index
ScanLimitReached(index) == index > HeaderScanLimit

\* lines 275-286, the iterator yields a pair whose name and value are valid:
\* it is inserted (the names of a set differ after HeaderName::from_str)
ConvertValid ==
    /\ h_pc = "loop"
    /\ h_left.valid > 0
    /\ h_left' = [h_left EXCEPT !.valid = @ - 1]
    /\ h_map' = h_map + 1
    /\ h_index' = h_index + 1
    /\ h_pc' = IF ScanLimitReached(h_index) THEN "done" ELSE "loop"
    /\ UNCHANGED <<h_input, rvars, cvars, ovars, qvars, wvars, mvars, gvars, kvars,
                   svars, pvars, tvars>>

\* lines 275-286, the iterator yields a pair whose name or value is invalid:
\* it is skipped
ConvertMalformed ==
    /\ h_pc = "loop"
    /\ h_left.bad > 0
    /\ h_left' = [h_left EXCEPT !.bad = @ - 1]
    /\ h_index' = h_index + 1
    /\ h_pc' = IF ScanLimitReached(h_index) THEN "done" ELSE "loop"
    /\ UNCHANGED <<h_input, h_map, rvars, cvars, ovars, qvars, wvars, mvars, gvars,
                   kvars, svars, pvars, tvars>>

\* line 275: the iterator is exhausted
ConvertEnd ==
    /\ h_pc = "loop"
    /\ h_left.valid = 0 /\ h_left.bad = 0
    /\ h_pc' = "done"
    /\ UNCHANGED <<h_input, h_left, h_index, h_map, rvars, cvars, ovars, qvars,
                   wvars, mvars, gvars, kvars, svars, pvars, tvars>>

NextHeaders == ConvertValid \/ ConvertMalformed \/ ConvertEnd

SpecHeaders == InitHeaders /\ [][NextHeaders]_vars

\* C20: convert_headers gives up only after 1000 malformed pairs: for a
\* header set with fewer than 1000 malformed pairs, whatever the number of
\* its valid pairs and the order of iteration, every valid pair is in the
\* result and no malformed one is.
C20_AllValidKept ==
    (h_pc = "done" /\ h_input.bad < HeaderScanLimit) => h_map = h_input.valid

\* ------------------------------------------------------------------------
\* cache.rs, remote.rs: the request/response pair given to CachePolicy::new
\* ------------------------------------------------------------------------
\* pairs of a HashMap<String, String> of headers
HeaderPairs ==
    {[name |-> "cache-control", value |-> "max-age=60"],
     [name |-> "Accept", value |-> "text/html"],
     [name |-> "bad name", value |-> "x"],
     [name |-> "x-a", value |-> "bad\nvalue"]}
HeaderSets == SUBSET HeaderPairs

\* HeaderName::from_str: a token, stored in lower case
NameValid(name) == name # "bad name"
Lower(name) == IF name = "Accept" THEN "accept" ELSE name
\* HeaderValue::from_str: no control character
ValueValid(value) == value # "bad\nvalue"

\* lines 270-289 for a set of at most HeaderScanLimit pairs: the loop ends
\* with the iterator and every pair is looked at
convert_headers(headers) ==
    {[name |-> Lower(e.name), value |-> e.value] :
        e \in {h \in headers : ValueValid(h.value) /\ NameValid(h.name)}}

\* Method::from_bytes(method.as_bytes()).unwrap_or(Method::GET)
MethodOrDefault(method) == IF method = "bad method" THEN "GET" ELSE method
\* StatusCode::from_u16(status).unwrap_or(StatusCode::EXPECTATION_FAILED)
StatusOrDefault(status) == IF status >= 100 /\ status <= 999 THEN status ELSE 417

PolicyArgs ==
    [url : {"http"}, method : {"GET", "POST", "bad method"}, status : {200, 99},
     request_headers : HeaderSets, response_headers : HeaderSets]

InitPolicy ==
    /\ WorkerOff /\ RewriterOff
    /\ SiteOff
    /\ StoreOff /\ LookupOff /\ KeyOff /\ SyncOff /\ HeadersOff
    /\ p_args \in PolicyArgs
    /\ p_put = NoPair
    /\ p_seed = NoPair

\* put_hybrid_cache, lines 301-316: req and res as the code builds them
PutHybridCachePolicy ==
    /\ p_put = NoPair
    /\ UriParses(p_args.url)
    /\ p_put' = Some([req |-> [uri |-> p_args.url,
                               method |-> MethodOrDefault(p_args.method),
                               headers |-> convert_headers(p_args.response_headers)],
                      res |-> [status |-> StatusOrDefault(p_args.status),
                               headers |-> convert_headers(p_args.request_headers)]])
    /\ UNCHANGED <<p_args, p_seed, rvars, cvars, ovars, qvars, wvars, mvars, gvars,
                   kvars, svars, hvars, tvars>>

\* seed_payload_into_local_cache, lines 200-216, for a payload with the same
\* url, method, status and headers
SeedPayloadPolicy ==
    /\ p_seed = NoPair
    /\ UriParses(p_args.url)
    /\ p_seed' = Some([req |-> [uri |-> p_args.url,
                                method |-> MethodOrDefault(p_args.method),
                                headers |-> convert_headers(p_args.request_headers)],
                       res |-> [status |-> StatusOrDefault(p_args.status),
                                headers |-> convert_headers(p_args.response_headers)]])
    /\ UNCHANGED <<p_args, p_put, rvars, cvars, ovars, qvars, wvars, mvars, gvars,
                   kvars, svars, hvars, tvars>>

NextPolicy == PutHybridCachePolicy \/ SeedPayloadPolicy

SpecPolicy == InitPolicy /\ [][NextPolicy]_vars

\* C19: the request put_hybrid_cache gives CachePolicy::new carries the
\* converted request headers and the response carries the converted
\* response headers, and for the same url, method, status and headers the
\* pair is the one seed_payload_into_local_cache gives it.
C19_SamePolicyInputs ==
    /\ p_put # NoPair =>
          /\ p_put[1].req.headers = convert_headers(p_args.request_headers)
          /\ p_put[1].res.headers = convert_headers(p_args.response_headers)
    /\ (p_put # NoPair /\ p_seed # NoPair) => p_put = p_seed

\* ------------------------------------------------------------------------
\* remote.rs: the website key of a push and the key of a pull
\* ------------------------------------------------------------------------
\* an http URL: "https://" host "/" path
Hosts == {<<"a">>, <<"b">>, <<"a", "b">>}
Paths == {<<>>, <<"p">>}
Urls == [host : Hosts, path : Paths]
UrlString(u) == <<"h", "t", "t", "p", "s", ":", "/", "/">> \o u.host \o <<"/">> \o u.path
\* Url::host_str()
HostStr(u) == u.host

SiteArgs == [page : Urls, target : Urls, auth : Option({<<"t">>})]

InitSite ==
    /\ WorkerOff /\ RewriterOff
    /\ StoreOff /\ LookupOff /\ KeyOff /\ SyncOff /\ PolicyOff /\ HeadersOff
    /\ site \in SiteArgs
    /\ website_key = None
    /\ site_key = None

\* dump_to_remote_cache, lines 59-64: website_key of the payload of a
\* response whose url is site.page
DumpWebsiteKey ==
    /\ website_key = None
    /\ website_key' = Some(HostStr(site.page))
    /\ UNCHANGED <<site, site_key, rvars, cvars, ovars, qvars, wvars, mvars, gvars,
                   kvars, svars, pvars, hvars>>

\* get_cache_site, lines 122-130: the key put in {base}/cache/site/{key}
GetCacheSiteKey ==
    /\ site_key = None
    /\ site_key' = Some(create_cache_key_raw(UrlString(site.target), None, site.auth))
    /\ UNCHANGED <<site, website_key, rvars, cvars, ovars, qvars, wvars, mvars,
                   gvars, kvars, svars, pvars, hvars>>

NextSite == DumpWebsiteKey \/ GetCacheSiteKey

SpecSite == InitSite /\ [][NextSite]_vars

\* C22: for a response and a target URL of the same site (the same host),
\* the key get_cache_site puts in the path of its GET is the website_key
\* dump_to_remote_cache puts in the payload, the host of the URL.
C22_PullKeyIsWebsiteKey ==
    (website_key # None /\ site_key # None
       /\ HostStr(site.page) = HostStr(site.target)) =>
        site_key = website_key

====
